---- MODULE Spec2Model ----
(***************************************************************************)
(* Model of backend/lists/serializers.py: the response serializer          *)
(* (validate, create, update) writing Response / Answer / Attachment rows, *)
(* and the report serializers (ReportGetEntitySerializer,                  *)
(* ReportSurveySerializer, ReportQuestionSerializer) reading them.         *)
(*                                                                         *)
(* Text that the code splits or compares (key_choices, answer bodies) is a *)
(* sequence of one-character strings; None is the one-element sequence     *)
(* <<"None">>, which is no text.                                           *)
(***************************************************************************)
EXTENDS Integers, Sequences, FiniteSets, TLC

VARIABLES
    runtime,          \* the Python implementation the service runs on
    questions,        \* rows of models.Question, in table order
    responses,        \* rows of models.Response, in table order
    answers,          \* rows of models.Answer, in table order
    attachments,      \* rows of models.Attachment, in table order
    nextAttachmentId, \* the Attachment table's auto-increment counter
    writes,           \* number of create / update requests served so far
    lastResult        \* what the last request returned

vars == <<runtime, questions, responses, answers, attachments,
          nextAttachmentId, writes, lastResult>>

(* ------------------------------ bounds --------------------------------- *)

\* create / update requests served in one behaviour
MaxWrites == 3
\* answers carried by one submission
MaxSubmit == 1

(* ------------------------------ helpers -------------------------------- *)

None == <<"None">>

RECURSIVE Concat(_)
Concat(ss) == IF ss = <<>> THEN <<>> ELSE Head(ss) \o Concat(Tail(ss))

Map(s, F(_)) == [i \in 1..Len(s) |-> F(s[i])]

Range(s) == {s[i] : i \in 1..Len(s)}

\* every sequence over items of length 0..n
SeqsUpTo(items, n) == UNION {[1..k -> items] : k \in 0..n}

(* --------------------------- Python semantics -------------------------- *)

\* `a is b` on two ints that come from different database rows. CPython keeps
\* one object per int in -5..256 and makes a fresh object for any other value;
\* an implementation without object identity for ints compares the values.
PyIs(a, b) == a = b /\ (runtime = "value-identity" \/ a \in -5..256)

\* str.split(";"): the empty string splits into one empty token.
RECURSIVE Split(_)
Split(s) ==
    IF s = <<>> THEN << <<>> >>
    ELSE LET rest == Split(Tail(s))
         IN  IF Head(s) = ";" THEN << <<>> >> \o rest
             ELSE << <<Head(s)>> \o Head(rest) >> \o Tail(rest)

\* `x in list`
In(x, list) == \E i \in 1..Len(list) : list[i] = x

(* ------------------------------ fixed rows ----------------------------- *)

Surveys == << [id |-> 1, name |-> "S1"], [id |-> 257, name |-> "S2"] >>

Survey(id) == CHOOSE s \in Range(Surveys) : s.id = id

\* the one stored Report: both surveys, responses created at time 2 or 3
Reports ==
    { [id |-> 1, name |-> "R", date_from |-> 2, date_to |-> 3,
       checklists |-> <<1, 257>>] }

Bodies == { <<>>, <<"Y">> }

ResponseContentType == "lists.response"

(* --------------------------- report serializers ------------------------ *)

\* dict_response_answers[response.id]: the answers of one response, in the
\* order of the list the dict was built from.
ResponseAnswers(anss, response_id) ==
    SelectSeq(anss, LAMBDA x : x.response_id = response_id)

\* [x for x in response_answers if x.question_id is obj.id]
AnswersTo(response_answers, obj) ==
    SelectSeq(response_answers, LAMBDA x : PyIs(x.question_id, obj.id))

\* ReportQuestionSerializer.get_answer
RECURSIVE get_answer(_, _, _)
get_answer(obj, resps, anss) ==
    IF resps = <<>> THEN None
    ELSE LET found == AnswersTo(ResponseAnswers(anss, Head(resps).id), obj)
         IN  IF found # <<>> THEN Head(found).body
             ELSE get_answer(obj, Tail(resps), anss)

\* the question/answer pairs of one note
NotePairs(response_answers, qs) ==
    Concat(Map(qs, LAMBDA question :
        Map(AnswersTo(response_answers, question),
            LAMBDA answer : [name |-> question.text, answer |-> answer.body])))

\* the image entries of one note
NoteImages(photos) ==
    Map(photos, LAMBDA k : [name |-> "image", keys |-> k.file])

\* ReportQuestionSerializer.get_notes
get_notes(obj, resps, anss, qs, photos) ==
    LET key_choices == Split(obj.key_choices)
        NotesOf(response) ==
            LET response_answers == ResponseAnswers(anss, response.id)
                keys == NotePairs(response_answers, qs) \o NoteImages(photos)
                hits == SelectSeq(AnswersTo(response_answers, obj),
                                  LAMBDA answer : In(answer.body, key_choices))
            IN  Map(hits, LAMBDA answer :
                    [created |-> response.created, keys |-> keys])
    IN  Concat(Map(resps, NotesOf))

\* que of get_questions: the survey's questions that are not image choices
SurveyQuestions(obj, qs) ==
    SelectSeq(qs, LAMBDA x : PyIs(x.survey_id, obj.id)
                              /\ x.type # "select-image")

\* dict_que[False] and dict_que[True]
RegularQuestions(obj, qs) ==
    SelectSeq(SurveyQuestions(obj, qs), LAMBDA x : ~x.is_key)

KeyQuestions(obj, qs) ==
    SelectSeq(SurveyQuestions(obj, qs), LAMBDA x : x.is_key)

\* [x for x in self.answers for qu in que if x.question_id is qu.id]
SurveyAnswers(anss, que) ==
    Concat(Map(anss, LAMBDA x :
        Map(SelectSeq(que, LAMBDA qu : PyIs(x.question_id, qu.id)),
            LAMBDA qu : x)))

\* [x for x in self.responses if x.survey_id is obj.id]
SurveyResponses(obj, resps) ==
    SelectSeq(resps, LAMBDA x : PyIs(x.survey_id, obj.id))

\* the photo query with the owner filter left out
SurveyPhotos_AnyOwner(resps_id) ==
    SelectSeq(attachments, LAMBDA x : x.content_type = ResponseContentType)

\* Attachment.objects.filter(content_type_id=..., object_id__in=resps_id)
SurveyPhotos(resps_id) ==
    SelectSeq(attachments, LAMBDA x : x.content_type = ResponseContentType
                                       /\ x.object_id \in resps_id)

\* ReportSurveySerializer.get_questions
get_questions(obj, all_resps, all_anss, all_qs) ==
    LET que     == SurveyQuestions(obj, all_qs)
        anss    == SurveyAnswers(all_anss, que)
        resps   == SurveyResponses(obj, all_resps)
        photos  == SurveyPhotos({resps[i].id : i \in 1..Len(resps)})
        keyqs   == KeyQuestions(obj, all_qs)
    IN  Map(RegularQuestions(obj, all_qs), LAMBDA q :
            [id |-> q.id, text |-> q.text, order |-> q.order,
             choices |-> q.choices, key_choices |-> q.key_choices,
             notes  |-> get_notes(q, resps, anss, keyqs, photos),
             answer |-> get_answer(q, resps, anss)])

\* the Response rows of a report: survey among the checklists, created in range
WindowResponses(obj) ==
    SelectSeq(responses, LAMBDA x : In(x.survey_id, obj.checklists)
                                     /\ x.created \in obj.date_from..obj.date_to)

\* ReportGetEntitySerializer.get_checklists
get_checklists(obj) ==
    LET lists == SelectSeq(Surveys, LAMBDA s : In(s.id, obj.checklists))
        resps == WindowResponses(obj)
        anss  == SelectSeq(answers, LAMBDA x :
                     \E i \in 1..Len(resps) : resps[i].id = x.response_id)
        qs    == SelectSeq(questions, LAMBDA x : In(x.survey_id, obj.checklists))
    IN  Map(lists, LAMBDA s :
            [id |-> s.id, name |-> s.name,
             questions |-> get_questions(s, resps, anss, qs)])

(* -------------------------- response serializer ------------------------ *)

Question(id) == CHOOSE q \in Range(questions) : q.id = id

\* `attrs['photo'] is not []`: the right-hand side is a list built for this
\* comparison, so no object is identical to it.
IsNotFreshList(photo) == TRUE

\* ResponseSerializer.validate: TRUE when no ValidationError is raised
validate(attrs) ==
    LET in_survey_count ==
            Len(SelectSeq(questions, LAMBDA x : x.survey_id = attrs.survey
                                                 /\ x.required))
        answered ==
            Len(SelectSeq(attrs.answers,
                          LAMBDA x : Question(x.question).required))
        in_response_count ==
            IF IsNotFreshList(attrs.photo) THEN answered + 1 ELSE answered
    IN  ~(in_response_count < in_survey_count)

\* the Attachment rows made from a photo list, ids from the table's counter
NewAttachments(photos, object_id) ==
    [i \in 1..Len(photos) |->
        [id |-> nextAttachmentId + i - 1,
         content_type |-> ResponseContentType,
         object_id |-> object_id,
         name |-> photos[i].name,
         file |-> nextAttachmentId + i - 1]]

\* the Answer rows made by one Answer.objects.create per submitted answer
NewAnswers(anss, submitted, response_id) ==
    [i \in 1..Len(submitted) |->
        [id |-> Len(anss) + i,
         response_id |-> response_id,
         question_id |-> submitted[i].question,
         body |-> submitted[i].body]]

\* the loop of ResponseSerializer.update over the submitted answers
RECURSIVE UpdateAnswers(_, _, _)
UpdateAnswers(anss, submitted, instance) ==
    IF submitted = <<>> THEN anss
    ELSE LET answer == Head(submitted)
             next ==
                 IF answer.id # 0
                 THEN [i \in 1..Len(anss) |->
                          IF anss[i].id = answer.id
                          THEN [anss[i] EXCEPT !.body = answer.body]
                          ELSE anss[i]]
                 ELSE Append(anss, [id |-> Len(anss) + 1,
                                    response_id |-> instance,
                                    question_id |-> answer.question,
                                    body |-> answer.body])
         IN  UpdateAnswers(next, Tail(submitted), instance)

(* ------------------------------- requests ------------------------------ *)

SurveyIds == {Surveys[i].id : i \in 1..Len(Surveys)}

\* a submitted answer that names no stored Answer ("id" absent): the client
\* answers a question of the survey it submits for and echoes that question
NewItems(survey) ==
    {[id |-> 0, question |-> q.id, body |-> b] :
        q \in {x \in Range(questions) : x.survey_id = survey}, b \in Bodies}

\* a submitted answer that names a stored Answer by "id"
EditItems ==
    {[id |-> a.id, question |-> a.question_id, body |-> b] :
        a \in Range(answers), b \in Bodies}

PhotoLists == { <<>>, << [name |-> "photo"] >> }

CreateRequests ==
    UNION {{[survey |-> s, answers |-> a, photo |-> p] :
               a \in SeqsUpTo(NewItems(s), MaxSubmit), p \in PhotoLists} :
           s \in SurveyIds}

\* an update is submitted for the survey the response was given for
UpdateRequests(instance) ==
    {[survey |-> instance.survey_id, answers |-> a, photo |-> p] :
        a \in SeqsUpTo(NewItems(instance.survey_id) \cup EditItems, MaxSubmit),
        p \in PhotoLists}

(* -------------------------------- actions ------------------------------ *)

QuestionRows ==
    {<< [id |-> 1, survey_id |-> 1, text |-> "Q1", order |-> 1,
         type |-> "select", required |-> TRUE, is_key |-> k1,
         choices |-> <<"Y", ";", "M">>,
         key_choices |-> <<"M", ";", "Y">>],
        [id |-> 2, survey_id |-> 1, text |-> "Q2", order |-> 2,
         type |-> r2.type, required |-> FALSE, is_key |-> r2.is_key,
         choices |-> <<"Y", ";", "M">>,
         key_choices |-> <<>>],
        [id |-> 300, survey_id |-> 1, text |-> "Q3", order |-> 3,
         type |-> "select", required |-> FALSE, is_key |-> FALSE,
         choices |-> <<"Y", ";", "M">>,
         key_choices |-> <<"Y">>],
        [id |-> 4, survey_id |-> 257, text |-> "Q4", order |-> 1,
         type |-> "select", required |-> TRUE, is_key |-> FALSE,
         choices |-> <<"Y", ";", "M">>,
         key_choices |-> <<"Y">>],
        [id |-> 5, survey_id |-> 257, text |-> "Q5", order |-> 2,
         type |-> "select", required |-> TRUE, is_key |-> TRUE,
         choices |-> <<"Y", ";", "M">>,
         key_choices |-> <<>>] >> :
      k1 \in BOOLEAN,
      r2 \in {[is_key |-> FALSE, type |-> "select"],
              [is_key |-> TRUE, type |-> "select"],
              [is_key |-> FALSE, type |-> "select-image"]}}

Init ==
    /\ runtime \in {"cpython", "value-identity"}
    /\ questions \in QuestionRows
    /\ responses = <<>>
    /\ answers = <<>>
    /\ attachments = <<>>
    /\ nextAttachmentId = 1
    /\ writes = 0
    /\ lastResult = [op |-> "none"]

\* POST of a response: is_valid() runs validate, save() runs create
CreateResponse(req) ==
    /\ writes < MaxWrites
    /\ writes' = writes + 1
    /\ IF validate(req)
       THEN LET response == [id |-> Len(responses) + 1,
                             survey_id |-> req.survey,
                             created |-> writes + 1]
                photos == NewAttachments(req.photo, response.id)
            IN  /\ responses' = Append(responses, response)
                /\ answers' = answers \o NewAnswers(answers, req.answers, response.id)
                /\ attachments' = attachments \o photos
                /\ nextAttachmentId' = nextAttachmentId + Len(photos)
                /\ lastResult' = [op |-> "create", status |-> "ok",
                                  request |-> req, instance |-> response.id]
       ELSE /\ UNCHANGED <<responses, answers, attachments, nextAttachmentId>>
            /\ lastResult' = [op |-> "create", status |-> "ValidationError",
                              request |-> req, instance |-> 0]
    /\ UNCHANGED <<runtime, questions>>

\* PUT of a response: is_valid() runs validate, save() runs update. The
\* fields update sets on the instance are never saved, so its row stays; the
\* report task it queues reads and changes nothing here.
UpdateResponse(instance, req) ==
    /\ writes < MaxWrites
    /\ writes' = writes + 1
    /\ IF validate(req)
       THEN LET kept == SelectSeq(attachments, LAMBDA x :
                            ~(x.content_type = ResponseContentType
                              /\ x.object_id = instance.id))
                photos == NewAttachments(req.photo, instance.id)
            IN  /\ answers' = UpdateAnswers(answers, req.answers, instance.id)
                /\ attachments' = kept \o photos
                /\ nextAttachmentId' = nextAttachmentId + Len(photos)
                /\ lastResult' = [op |-> "update", status |-> "ok",
                                  request |-> req, instance |-> instance.id]
       ELSE /\ UNCHANGED <<answers, attachments, nextAttachmentId>>
            /\ lastResult' = [op |-> "update", status |-> "ValidationError",
                              request |-> req, instance |-> instance.id]
    /\ UNCHANGED <<runtime, questions, responses>>

\* GET of a report
GetReport(obj) ==
    /\ lastResult' = [op |-> "report", report |-> obj,
                      checklists |-> get_checklists(obj)]
    /\ UNCHANGED <<runtime, questions, responses, answers, attachments,
                   nextAttachmentId, writes>>

Next ==
    \/ \E req \in CreateRequests : CreateResponse(req)
    \/ \E instance \in Range(responses) :
           \E req \in UpdateRequests(instance) : UpdateResponse(instance, req)
    \/ \E obj \in Reports : GetReport(obj)

Spec == Init /\ [][Next]_vars

(* ------------------------- vocabulary of the claims -------------------- *)
(* The claims are stated over the stored rows with plain equality of ids,  *)
(* and over the document the last GET of a report returned.                *)

IsReport == lastResult.op = "report"

IsImage(entry) == "keys" \in DOMAIN entry

\* the responses of one survey inside the window of the returned report
ReportResponses(survey_id) ==
    SelectSeq(WindowResponses(lastResult.report),
              LAMBDA x : x.survey_id = survey_id)

\* the response a note was emitted for (created stamps are distinct)
NoteResponse(survey_id, note) ==
    CHOOSE r \in Range(ReportResponses(survey_id)) : r.created = note.created

HasAnswer(response, question_id) ==
    \E a \in Range(answers) : /\ a.response_id = response.id
                              /\ a.question_id = question_id

HasTriggerAnswer(response, question) ==
    \E a \in Range(answers) : /\ a.response_id = response.id
                              /\ a.question_id = question.id
                              /\ In(a.body, Split(question.key_choices))

NonImageQuestions(survey_id) ==
    SelectSeq(questions, LAMBDA x : x.survey_id = survey_id
                                     /\ x.type # "select-image")

RegularOf(survey_id) ==
    SelectSeq(NonImageQuestions(survey_id), LAMBDA x : ~x.is_key)

KeyOf(survey_id) ==
    SelectSeq(NonImageQuestions(survey_id), LAMBDA x : x.is_key)

Ids(rows) == [i \in 1..Len(rows) |-> rows[i].id]

\* every (survey entry, row) of the returned report satisfies P
AllRows(P(_, _)) ==
    \A i \in 1..Len(lastResult.checklists) :
        LET entry == lastResult.checklists[i]
        IN  \A j \in 1..Len(entry.questions) : P(entry, entry.questions[j])

\* every (survey entry, row, note) of the returned report satisfies P
AllNotes(P(_, _, _)) ==
    \A i \in 1..Len(lastResult.checklists) :
        LET entry == lastResult.checklists[i]
        IN  \A j \in 1..Len(entry.questions) :
                \A n \in 1..Len(entry.questions[j].notes) :
                    P(entry, entry.questions[j], entry.questions[j].notes[n])

SomeNote(P(_, _, _)) ==
    \E i \in 1..Len(lastResult.checklists) :
        LET entry == lastResult.checklists[i]
        IN  \E j \in 1..Len(entry.questions) :
                \E n \in 1..Len(entry.questions[j].notes) :
                    P(entry, entry.questions[j], entry.questions[j].notes[n])

(* --------------------------------- claims ------------------------------ *)

\* C1: for every survey of a report and every key question k of it, each
\* regular-question row carries exactly one note per response whose answer
\* to k is in k's trigger set, in response order, and no note for a response
\* whose answer to k is outside the set or missing.
C1_NotesFollowKeyQuestions ==
    IsReport => AllRows(LAMBDA entry, row :
        /\ \A r \in Range(ReportResponses(entry.id)) :
              Len(SelectSeq(row.notes, LAMBDA n : n.created = r.created))
                = Cardinality({k \in Range(KeyOf(entry.id)) :
                                   HasTriggerAnswer(r, k)})
        /\ \A a, b \in 1..Len(row.notes) :
              a < b => row.notes[a].created <= row.notes[b].created)

\* C2: the keys of a note emitted for response R start with exactly one
\* {name, answer} pair per regular question R answered, in regular-question
\* order, and hold no pair for a regular question R did not answer.
C2_PairsAreRegularQuestions ==
    IsReport => AllNotes(LAMBDA entry, row, note :
        LET r == NoteResponse(entry.id, note)
            pairs == SelectSeq(note.keys, LAMBDA e : ~IsImage(e))
            answered == SelectSeq(RegularOf(entry.id),
                                  LAMBDA q : HasAnswer(r, q.id))
        IN  /\ Len(pairs) = Len(answered)
            /\ \A i \in 1..Len(pairs) :
                  /\ ~IsImage(note.keys[i])
                  /\ pairs[i].name = answered[i].text
                  /\ \E a \in Range(answers) :
                        /\ a.response_id = r.id
                        /\ a.question_id = answered[i].id
                        /\ a.body = pairs[i].answer)

\* C3: a row never has more notes than its survey has responses in the
\* window, and every note was emitted for an answer to the row's question
\* whose body is in the row's trigger set.
C3_NotesBoundedByResponses ==
    IsReport => AllRows(LAMBDA entry, row :
        /\ Len(row.notes) <= Len(ReportResponses(entry.id))
        /\ \A n \in 1..Len(row.notes) :
              \E r \in Range(ReportResponses(entry.id)) :
                  /\ r.created = row.notes[n].created
                  /\ HasTriggerAnswer(r, row))

\* C4: a question whose key_choices string is empty has no notes, whatever
\* the answer bodies are.
C4_EmptyTriggerNoNotes ==
    IsReport => AllRows(LAMBDA entry, row :
        row.key_choices = <<>> => row.notes = <<>>)

\* the attachments owned by the responses of one survey in the report window
ReportAttachments(survey_id) ==
    {a \in Range(attachments) :
        \E r \in Range(ReportResponses(survey_id)) : a.object_id = r.id}

\* C5: every note of a survey holds exactly one image entry per attachment
\* owned by any response of that survey in the report window, after the
\* question/answer pairs, whichever response triggered the note, and no
\* entry for an attachment owned by a response of another survey.
C5_PhotoFanOut ==
    IsReport => AllNotes(LAMBDA entry, row, note :
        LET expected == ReportAttachments(entry.id)
            images == {i \in 1..Len(note.keys) : IsImage(note.keys[i])}
        IN  /\ \A a \in expected :
                  Cardinality({i \in images : note.keys[i].keys = a.file}) = 1
            /\ Cardinality(images) = Cardinality(expected)
            /\ \A i \in images : note.keys[i].name = "image"
            /\ \A i \in images : \A j \in 1..Len(note.keys) :
                  ~IsImage(note.keys[j]) => j < i)

\* C5 happens: a returned note carries the photo of a response that did not
\* trigger it, while another stored photo (of a response of another survey
\* or outside the window) is left out of it.
C5_Witness ==
    /\ IsReport
    /\ SomeNote(LAMBDA entry, row, note :
          /\ \E a \in ReportAttachments(entry.id) :
                /\ a.object_id # NoteResponse(entry.id, note).id
                /\ \E i \in 1..Len(note.keys) :
                      IsImage(note.keys[i]) /\ note.keys[i].keys = a.file
          /\ \E b \in Range(attachments) :
                /\ b \notin ReportAttachments(entry.id)
                /\ \A i \in 1..Len(note.keys) :
                      IsImage(note.keys[i]) => note.keys[i].keys # b.file)

\* C6: get_questions splits a survey's non-image-choice questions by is_key
\* into a regular and a key list that are disjoint, cover all of them and
\* keep their order, and the rows of the survey's entry are exactly the
\* regular list.
C6_RowsAreRegularQuestions ==
    IsReport =>
        \A i \in 1..Len(lastResult.checklists) :
            LET entry == lastResult.checklists[i]
                obj == Survey(entry.id)
                regular == RegularQuestions(obj, questions)
                key == KeyQuestions(obj, questions)
            IN  /\ Range(regular) \cap Range(key) = {}
                /\ Range(regular) \cup Range(key)
                     = Range(NonImageQuestions(entry.id))
                /\ regular = RegularOf(entry.id)
                /\ key = KeyOf(entry.id)
                /\ Ids(entry.questions) = Ids(RegularOf(entry.id))

\* the body of the first answer to a question among responses, in order
RECURSIVE FirstAnswer(_, _)
FirstAnswer(question_id, resps) ==
    IF resps = <<>> THEN None
    ELSE LET found == SelectSeq(answers, LAMBDA a :
                          /\ a.response_id = Head(resps).id
                          /\ a.question_id = question_id)
         IN  IF found # <<>> THEN Head(found).body
             ELSE FirstAnswer(question_id, Tail(resps))

\* C7: the answer of a row is the body of the answer to the row's question
\* from the first response of the survey that answered it, and null when no
\* response in the window answered it.
C7_AnswerOfFirstResponse ==
    IsReport => AllRows(LAMBDA entry, row :
        row.answer = FirstAnswer(row.id, ReportResponses(entry.id)))

\* C8: the stored answers hold at most one Answer per (response, question).
C8_OneAnswerPerQuestion ==
    \A i, j \in 1..Len(answers) :
        (/\ answers[i].response_id = answers[j].response_id
         /\ answers[i].question_id = answers[j].question_id) => i = j

\* C9: an update of response R leaves the answers of every other response
\* as they were.
C9_UpdateTouchesOwnAnswers ==
    [][(lastResult'.op = "update") =>
          \A i \in 1..Len(answers) :
              answers[i].response_id # lastResult'.instance
                  => answers'[i] = answers[i]]_vars

\* C10: a submission with an empty photo list and fewer answers to required
\* questions than the survey has required questions is refused with a
\* ValidationError.
C10_IncompleteRefused ==
    (/\ lastResult.op \in {"create", "update"}
     /\ lastResult.request.photo = <<>>
     /\ Cardinality({i \in 1..Len(lastResult.request.answers) :
            Question(lastResult.request.answers[i].question).required})
          < Cardinality({q \in Range(questions) :
                q.survey_id = lastResult.request.survey /\ q.required}))
        => lastResult.status = "ValidationError"

====
